---- MODULE Spec2Model ----
(***************************************************************************)
(* Model of Aggregator/Aggregator.py: the index mapping (AggregatorMapping *)
(* with its gzipped csv storage), the containment builder (Aggregator) and *)
(* the aggregation call (AggregatorMapping.__call__).                      *)
(*                                                                         *)
(* Python values are modelled as follows.                                  *)
(*  - a list is a TLA+ sequence; list positions and the integers stored in *)
(*    index lists are Python's (0-based), so Python's x[i] is x[i + 1];     *)
(*  - a text is a sequence of one-character strings;                       *)
(*  - an element of a (masked) array is a record [v, m]: the payload and   *)
(*    the mask bit; numpy.ma.masked is [v |-> 0, m |-> TRUE];              *)
(*  - the outcome of a call is a record whose field kind tells a returned  *)
(*    value from a raised exception.                                       *)
(***************************************************************************)
EXTENDS Integers, Sequences, FiniteSets, TLC

VARIABLES
    indices,    \* self.indices of the mapping object
    size,       \* self.size of the mapping object
    paths,      \* self.paths (the builder's polygons)
    points,     \* self.points (the builder's points)
    file,       \* the content of the csv.gz file, decompressed
    data,       \* the caller's fine array
    call,       \* the last step: the call made, with its arguments, or the caller's own step
    ret,        \* what the last call returned or raised
    trace,      \* what the last call did on the way (tests run, reductions applied)
    history     \* the aggregate calls whose result the caller has kept

vars == <<indices, size, paths, points, file, data, call, ret, trace, history>>

\* ---------------------------------------------------------------- bounds

MaxRows == 2
MaxRowLen == 2
MaxFileRows == 2
MaxCoarse == 2
MaxFine == 3
MaxPaths == 2
MaxPoints == 3

\* the integers the stored index lists are drawn from
IndexValues == {-1, 0, 12}

\* ------------------------------------------------------------- sequences

SeqsUpTo(S, n) == UNION {[1..k -> S] : k \in 0..n}

RECURSIVE Concat(_)
Concat(ss) == IF ss = <<>> THEN <<>> ELSE Head(ss) \o Concat(Tail(ss))

RECURSIVE Join(_, _)
Join(ss, sep) ==
    IF ss = <<>> THEN <<>>
    ELSE IF Len(ss) = 1 THEN ss[1]
    ELSE ss[1] \o sep \o Join(Tail(ss), sep)

Range(s) == {s[i] : i \in DOMAIN s}

\* ------------------------------------------------------ results of calls

NoFile == [kind |-> "nofile"]
Stored(text) == [kind |-> "file", text |-> text]
None == [kind |-> "None"]
Returned(v) == [kind |-> "value", val |-> v]
ValueError(tok) == [kind |-> "ValueError", literal |-> tok]
IndexError(i, n) == [kind |-> "IndexError", index |-> i, size |-> n]
NoTrace == <<>>

\* ------------------------------------------------- AggregatorMapping.__init__

AggregatorMapping(idx) == [indices |-> [k \in DOMAIN idx |-> idx[k]], size |-> Len(idx)]

\* ------------------------------------------------------------ save_csv_gz

DigitChars == <<"0", "1", "2", "3", "4", "5", "6", "7", "8", "9">>

RECURSIVE StrNat(_)
StrNat(n) == IF n < 10 THEN <<DigitChars[n + 1]>>
             ELSE StrNat(n \div 10) \o <<DigitChars[(n % 10) + 1]>>

\* str(n) of a Python int, which csv.writer applies to every field
str(n) == IF n < 0 THEN <<"-">> \o StrNat(-n) ELSE StrNat(n)

\* csv.writer's line terminator
lineterminator == <<"\r", "\n">>

\* os.linesep of the platform the file is written on (POSIX)
linesep == <<"\n">>

\* csv.writer.writerow: the fields joined by commas, then the terminator
writerow(row) == Join([k \in DOMAIN row |-> str(row[k])], <<",">>) \o lineterminator

writerows(rows) == Concat([k \in DOMAIN rows |-> writerow(rows[k])])

\* text mode 'wt' (newline=None): each "\n" written becomes os.linesep
RECURSIVE TranslateOut(_)
TranslateOut(text) ==
    IF text = <<>> THEN <<>>
    ELSE (IF Head(text) = "\n" THEN linesep ELSE <<Head(text)>>) \o TranslateOut(Tail(text))

\* only the cells that have indices are written
save_csv_gz_nonempty(idx) == TranslateOut(writerows(SelectSeq(idx, LAMBDA row : row # <<>>)))

save_csv_gz(idx) == TranslateOut(writerows(idx))

\* ------------------------------------------------------------ load_csv_gz

\* text mode 'rt' (newline=None): "\r\n", "\r" and "\n" are all read as "\n"
RECURSIVE TranslateIn(_)
TranslateIn(text) ==
    IF text = <<>> THEN <<>>
    ELSE IF Head(text) = "\r"
         THEN IF Len(text) > 1 /\ text[2] = "\n"
              THEN <<"\n">> \o TranslateIn(Tail(Tail(text)))
              ELSE <<"\n">> \o TranslateIn(Tail(text))
         ELSE <<Head(text)>> \o TranslateIn(Tail(text))

\* the lines the file object yields, without their "\n"; a last line that
\* has no "\n" is a line too
RECURSIVE SplitOn(_, _, _)
SplitOn(text, sep, cur) ==
    IF text = <<>> THEN <<cur>>
    ELSE IF Head(text) = sep THEN <<cur>> \o SplitOn(Tail(text), sep, <<>>)
    ELSE SplitOn(Tail(text), sep, Append(cur, Head(text)))

Lines(text) ==
    LET parts == SplitOn(text, "\n", <<>>)
    IN  IF parts[Len(parts)] = <<>> THEN SubSeq(parts, 1, Len(parts) - 1) ELSE parts

\* csv.reader on one line: an empty line is the empty row, any other line
\* is split at its commas (the alphabet has no quote character)
ReaderRow(line) == IF line = <<>> THEN <<>> ELSE SplitOn(line, ",", <<>>)

reader(text) == [k \in DOMAIN Lines(text) |-> ReaderRow(Lines(text)[k])]

\* int(token): surrounding blanks are dropped, one sign is allowed, and at
\* least one digit must follow; anything else raises ValueError
RECURSIVE Strip(_)
Strip(tok) ==
    IF tok = <<>> THEN <<>>
    ELSE IF Head(tok) = " " THEN Strip(Tail(tok))
    ELSE IF tok[Len(tok)] = " " THEN Strip(SubSeq(tok, 1, Len(tok) - 1))
    ELSE tok

IsDigit(c) == \E d \in 1..10 : DigitChars[d] = c

DigitVal(c) == (CHOOSE d \in 1..10 : DigitChars[d] = c) - 1

RECURSIVE NatOf(_, _)
NatOf(ds, acc) == IF ds = <<>> THEN acc ELSE NatOf(Tail(ds), 10 * acc + DigitVal(Head(ds)))

Unsigned(tok) ==
    LET s == Strip(tok)
    IN  IF s # <<>> /\ Head(s) \in {"-", "+"} THEN Tail(s) ELSE s

IsIntLiteral(tok) ==
    /\ Unsigned(tok) # <<>>
    /\ \A k \in DOMAIN Unsigned(tok) : IsDigit(Unsigned(tok)[k])

int(tok) ==
    LET s == Strip(tok)
    IN  IF Head(s) = "-" THEN 0 - NatOf(Unsigned(tok), 0) ELSE NatOf(Unsigned(tok), 0)

\* the tokens in the order the list comprehension converts them
Tokens(rows) == Concat(rows)

BadTokens(rows) == SelectSeq(Tokens(rows), LAMBDA t : ~IsIntLiteral(t))

\* load_csv_gz: the mapping, or the ValueError of the first token int() rejects
load_csv_gz(text) ==
    LET rows == reader(TranslateIn(text))
    IN  IF BadTokens(rows) # <<>>
        THEN ValueError(BadTokens(rows)[1])
        ELSE Returned(AggregatorMapping(
                 [k \in DOMAIN rows |-> [j \in DOMAIN rows[k] |-> int(rows[k][j])]]))

\* ------------------------------------------------------------ the actions

\* M.save_csv_gz(filename)
Save ==
    /\ call.op # "input"
    /\ file' = Stored(save_csv_gz(indices))
    /\ call' = [op |-> "save_csv_gz"]
    /\ ret' = None
    /\ trace' = NoTrace
    /\ UNCHANGED <<indices, size, paths, points, data, history>>

\* load_csv_gz(filename) of a file that exists
Load ==
    /\ file.kind = "file"
    /\ call' = [op |-> "load_csv_gz"]
    /\ ret' = load_csv_gz(file.text)
    /\ trace' = NoTrace
    /\ UNCHANGED <<indices, size, paths, points, file, data, history>>

\* -------------------------------------------- storage: save, then load

Mappings == SeqsUpTo(SeqsUpTo(IndexValues, MaxRowLen), MaxRows)

InitStore ==
    /\ \E M \in Mappings :
          /\ indices = AggregatorMapping(M).indices
          /\ size = AggregatorMapping(M).size
    /\ paths = <<>>
    /\ points = <<>>
    /\ file = NoFile
    /\ data = <<>>
    /\ call = [op |-> "AggregatorMapping"]
    /\ ret = None
    /\ trace = NoTrace
    /\ history = {}

NextStore == Save \/ Load

SpecStore == InitStore /\ [][NextStore]_vars

\* C1: loading the file a mapping was saved to returns a mapping of the same
\* size whose index lists are the same integers in the same order, cell by
\* cell; an empty list comes back as an empty list at the same position.
RoundTrip ==
    call.op = "load_csv_gz" =>
        /\ ret.kind = "value"
        /\ ret.val.size = size
        /\ ret.val.indices = indices
        /\ \A k \in DOMAIN indices : (indices[k] = <<>>) <=> (ret.val.indices[k] = <<>>)

RoundTripWitness ==
    /\ call.op = "load_csv_gz"
    /\ size = 2
    /\ indices[1] = <<>>
    /\ indices[2] = <<12, -1>>
    /\ ret = Returned([indices |-> <<<<>>, <<12, -1>>>>, size |-> 2])

\* ------------------------------------- storage: loading a file found on disk

\* the fields another program may have written
FileTokens == {<<"0">>, <<"1", "2">>, <<"x">>, <<"1", ".", "5">>, <<" ", "7">>}

\* a file of at most MaxFileRows lines of at most MaxRowLen fields each
FileRows == SeqsUpTo(SeqsUpTo(FileTokens, MaxRowLen), MaxFileRows)

FileText(rows) == Concat([k \in DOMAIN rows |-> Join(rows[k], <<",">>) \o <<"\n">>])

FileTexts == {FileText(rows) : rows \in FileRows}

InitLoad ==
    /\ indices = AggregatorMapping(<<>>).indices
    /\ size = AggregatorMapping(<<>>).size
    /\ paths = <<>>
    /\ points = <<>>
    /\ file \in {Stored(t) : t \in FileTexts}
    /\ data = <<>>
    /\ call = [op |-> "AggregatorMapping"]
    /\ ret = None
    /\ trace = NoTrace
    /\ history = {}

NextLoad == Load

SpecLoad == InitLoad /\ [][NextLoad]_vars

\* the number (from 1) of the first line holding a token int() rejects, 0 if none
FirstBadLine(text) ==
    LET rows == reader(TranslateIn(text))
        bad == {k \in DOMAIN rows : \E j \in DOMAIN rows[k] : ~IsIntLiteral(rows[k][j])}
    IN  IF bad = {} THEN 0 ELSE CHOOSE k \in bad : \A m \in bad : k <= m

\* C8: loading a file with a non-integer token fails with a parse error that
\* identifies the offending line, and returns no mapping. An error identifies
\* the line when no file whose first bad line is another one raises the same.
MalformedIdentifiesLine ==
    (call.op = "load_csv_gz" /\ FirstBadLine(file.text) # 0) =>
        /\ ret.kind = "ValueError"
        /\ \A t \in FileTexts :
              load_csv_gz(t) = ret => FirstBadLine(t) = FirstBadLine(file.text)

\* ------------------------------------------------------ Aggregator.__init__

\* A polygon is an axis-parallel rectangle [x0, x1] x [y0, y1], which may be
\* collapsed to a line or to a point; a point is a record [x, y].
Rect(x0, x1, y0, y1) == [x0 |-> x0, x1 |-> x1, y0 |-> y0, y1 |-> y1]

Pt(x, y) == [x |-> x, y |-> y]

\* path.get_extents().size: the width and the height of the bounding box
get_extents_size(path) == <<path.x1 - path.x0, path.y1 - path.y0>>

\* ndarray.any(): some entry is not zero
any(a) == \E k \in DOMAIN a : a[k] # 0

StrictlyInside(pt, path) ==
    /\ path.x0 < pt.x /\ pt.x < path.x1
    /\ path.y0 < pt.y /\ pt.y < path.y1

StrictlyOutside(pt, path) ==
    \/ pt.x < path.x0 \/ path.x1 < pt.x
    \/ pt.y < path.y0 \/ path.y1 < pt.y

\* path.contains_points(pts): the masks the containment test may return. A
\* point off the boundary is classified as it lies; a point on the boundary
\* is classified either way, equal points alike.
contains_points(path, pts) ==
    LET onBoundary == {pts[k] : k \in {j \in DOMAIN pts :
                           /\ ~StrictlyInside(pts[j], path)
                           /\ ~StrictlyOutside(pts[j], path)}}
    IN  {[k \in DOMAIN pts |->
            IF StrictlyInside(pts[k], path) THEN TRUE
            ELSE IF StrictlyOutside(pts[k], path) THEN FALSE
            ELSE b[pts[k]]] : b \in [onBoundary -> BOOLEAN]}

\* the positions counted from 1
whereFrom1(mask) == SelectSeq([k \in DOMAIN mask |-> k], LAMBDA i : mask[i])

\* where(mask)[0]: the positions (from 0) of the true entries, ascending
where(mask) == SelectSeq([k \in DOMAIN mask |-> k - 1], LAMBDA i : mask[i + 1])

\* the masks returned for each polygon, were it tested
RECURSIVE Oracles(_, _)
Oracles(pths, pts) ==
    IF pths = <<>> THEN {<<>>}
    ELSE {<<m>> \o o : m \in contains_points(Head(pths), pts), o \in Oracles(Tail(pths), pts)}

\* all lists of idx share one list object
LoopBodyShared(pths, oracle) ==
    LET all == Concat([i \in DOMAIN pths |->
                   IF any(get_extents_size(pths[i])) THEN where(oracle[i]) ELSE <<>>])
    IN  [i \in DOMAIN pths |-> all]

\* the loop over zip(paths, idx): the list of a polygon with some extent is
\* extended by the positions found inside it, any other list stays empty
LoopBody(pths, oracle) ==
    [i \in DOMAIN pths |->
        IF any(get_extents_size(pths[i]))
        THEN LET inside == where(oracle[i])
             IN  IF Len(inside) > 0 THEN <<>> \o inside ELSE <<>>
        ELSE <<>>]

\* which polygons the loop handed to contains_points, and what it returned
Tests(pths, oracle) ==
    [i \in DOMAIN pths |->
        IF any(get_extents_size(pths[i]))
        THEN [tested |-> TRUE, mask |-> oracle[i]]
        ELSE [tested |-> FALSE, mask |-> <<>>]]

Aggregator(pths, pts, oracle) ==
    [size |-> Len(pths), indices |-> LoopBody(pths, oracle), points |-> pts, paths |-> pths]

\* Aggregator(paths, points) on the polygons and points at hand
Build ==
    /\ call.op = "input"
    /\ \E oracle \in Oracles(paths, points) :
          /\ indices' = Aggregator(paths, points, oracle).indices
          /\ size' = Aggregator(paths, points, oracle).size
          /\ paths' = Aggregator(paths, points, oracle).paths
          /\ points' = Aggregator(paths, points, oracle).points
          /\ trace' = Tests(paths, oracle)
    /\ call' = [op |-> "Aggregator"]
    /\ ret' = None
    /\ UNCHANGED <<file, data, history>>

\* ------------------------------------------------ building: inputs, then build

Square0 == Rect(0, 10, 0, 10)
Square1 == Rect(10, 20, 0, 10)
ZeroWidth == Rect(10, 10, 0, 10)
ZeroHeight == Rect(0, 8, 5, 5)
ZeroExtent == Rect(10, 10, 5, 5)

PathValues == {Square0, Square1, ZeroWidth, ZeroHeight, ZeroExtent}

PointValues == {Pt(5, 5), Pt(15, 5), Pt(9, 9), Pt(10, 5)}

InitBuild ==
    /\ indices = <<>>
    /\ size = 0
    /\ paths \in SeqsUpTo(PathValues, MaxPaths)
    /\ points \in SeqsUpTo(PointValues, MaxPoints)
    /\ file = NoFile
    /\ data = <<>>
    /\ call = [op |-> "input"]
    /\ ret = None
    /\ trace = NoTrace
    /\ history = {}

NextBuild == Build

SpecBuild == InitBuild /\ [][NextBuild]_vars

Width(path) == path.x1 - path.x0
Height(path) == path.y1 - path.y0

\* the positions (from 0) of the points polygon i was found to contain
InsideSet(i) == {k - 1 : k \in {j \in DOMAIN trace[i].mask : trace[i].mask[j]}}

Ascending(s) == \A j, k \in DOMAIN s : j < k => s[j] < s[k]

\* C2: a polygon whose bounding box has zero width or zero height is not
\* containment-tested and gets an empty index list, whatever the points are.
ShortCircuitEither ==
    call.op = "Aggregator" =>
        \A i \in DOMAIN paths :
            (Width(paths[i]) = 0 \/ Height(paths[i]) = 0) =>
                /\ ~trace[i].tested
                /\ indices[i] = <<>>

\* C9: the mapping has one index list per polygon, in input order, and the
\* list of a polygon with a non-degenerate bounding box is exactly the
\* positions of the points the containment test found inside it, ascending;
\* the two unit-square scenarios give [[0,2],[1]] and [[0],[]].
BuilderResult ==
    call.op = "Aggregator" =>
        /\ size = Len(paths)
        /\ Len(indices) = Len(paths)
        /\ \A i \in DOMAIN paths :
              (Width(paths[i]) > 0 /\ Height(paths[i]) > 0) =>
                  /\ trace[i].tested
                  /\ Range(indices[i]) = InsideSet(i)
                  /\ Ascending(indices[i])
        /\ (paths = <<Square0, Square1>> /\ points = <<Pt(5, 5), Pt(15, 5), Pt(9, 9)>>)
              => indices = <<<<0, 2>>, <<1>>>>
        /\ (paths = <<Square0, Square1>> /\ points = <<Pt(5, 5)>>)
              => indices = <<<<0>>, <<>>>>

BuilderResultWitness ==
    /\ call.op = "Aggregator"
    /\ paths = <<Square0, Square1>>
    /\ points = <<Pt(5, 5), Pt(15, 5), Pt(9, 9)>>
    /\ indices = <<<<0, 2>>, <<1>>>>

InteriorsDisjoint(p, q) ==
    \/ p.x1 <= q.x0 \/ q.x1 <= p.x0
    \/ p.y1 <= q.y0 \/ q.y1 <= p.y0

CoveragePremise ==
    /\ \A i \in DOMAIN paths : Width(paths[i]) > 0 /\ Height(paths[i]) > 0
    /\ \A i, j \in DOMAIN paths : i # j => InteriorsDisjoint(paths[i], paths[j])
    /\ \A k \in DOMAIN points :
          Cardinality({i \in DOMAIN paths : StrictlyInside(points[k], paths[i])}) = 1

\* the number of times p occurs in the list s
Occurrences(s, p) == Cardinality({j \in DOMAIN s : s[j] = p})

\* C6: for non-overlapping, non-degenerate polygons and points each strictly
\* inside exactly one of them, every point index is in exactly one index list
\* (once), and the lists together hold exactly the indices 0..|points|-1.
DisjointCoverage ==
    (call.op = "Aggregator" /\ CoveragePremise) =>
        /\ \A p \in 0..(Len(points) - 1) :
              /\ Cardinality({i \in DOMAIN indices : p \in Range(indices[i])}) = 1
              /\ \A i \in DOMAIN indices : Occurrences(indices[i], p) <= 1
        /\ UNION {Range(indices[i]) : i \in DOMAIN indices} = 0..(Len(points) - 1)

DisjointCoverageWitness ==
    /\ call.op = "Aggregator"
    /\ CoveragePremise
    /\ Len(paths) = 2
    /\ Len(points) = 3
    /\ indices[1] # <<>>
    /\ indices[2] # <<>>

\* ------------------------------------------------ AggregatorMapping.__call__

Plain(v) == [v |-> v, m |-> FALSE]
Missing(v) == [v |-> v, m |-> TRUE]

\* numpy.ma.masked, what a reduction over no valid entry returns
masked == Missing(0)

\* the payloads of the entries of a that are not masked, in order
Compressed(a) == LET valid == SelectSeq(a, LAMBDA e : ~e.m)
                 IN  [k \in DOMAIN valid |-> valid[k].v]

RECURSIVE Insert(_, _)
Insert(x, s) == IF s = <<>> THEN <<x>>
                ELSE IF x <= Head(s) THEN <<x>> \o s
                ELSE <<Head(s)>> \o Insert(x, Tail(s))

RECURSIVE Sorted(_)
Sorted(s) == IF s = <<>> THEN <<>> ELSE Insert(Head(s), Sorted(Tail(s)))

RECURSIVE Sum(_)
Sum(s) == IF s = <<>> THEN 0 ELSE Head(s) + Sum(Tail(s))

\* numpy.ma.median: the middle of the sorted valid entries, the mean of the two
\* middle ones when their number is even, masked when there is none. The
\* payloads of the model are multiples of 10, so the mean is an integer.
median(a) ==
    LET s == Sorted(Compressed(a))
        n == Len(s)
    IN  IF n = 0 THEN masked
        ELSE IF n % 2 = 1 THEN Plain(s[(n + 1) \div 2])
        ELSE Plain((s[n \div 2] + s[(n \div 2) + 1]) \div 2)

\* numpy.ma.sum: the sum of the valid entries, masked when there is none
sum(a) == IF Compressed(a) = <<>> THEN masked ELSE Plain(Sum(Compressed(a)))

\* numpy.ma.count: the number of valid entries, never masked
count(a) == Plain(Len(Compressed(a)))

\* the reduction functions a caller passes as method
Methods == {"median", "sum", "count"}

method(name, a) ==
    CASE name = "median" -> median(a)
      [] name = "sum" -> sum(a)
      [] name = "count" -> count(a)

\* numpy's check of one index against an array of n entries
OutOfBounds(i, n) == i >= n \/ i < 0 - n

\* an index beyond the array wraps around instead of failing
TakeWrap(d, idn) ==
    LET n == Len(d)
    IN  IF n = 0 THEN IndexError(idn[1], n)
        ELSE Returned([k \in DOMAIN idn |-> d[(idn[k] % n) + 1]])

\* data[idn] with a list idn: IndexError for the first index out of bounds,
\* else the entries at the listed positions, a negative one counted from the end
Take(d, idn) ==
    LET n == Len(d)
        bad == SelectSeq(idn, LAMBDA i : OutOfBounds(i, n))
    IN  IF bad # <<>> THEN IndexError(bad[1], n)
        ELSE Returned([k \in DOMAIN idn |->
                          IF idn[k] < 0 THEN d[idn[k] + n + 1] ELSE d[idn[k] + 1]])

\* the reduced value is stored as it is, its mask ignored
UnmaskNot(aggregates, fv) == aggregates.v

\* where(getmaskarray(aggregates), fv, aggregates)
Unmask(aggregates, fv) == IF aggregates.m THEN fv ELSE aggregates.v

\* the value stored for cell n is stored one cell too far
RECURSIVE LoopShifted(_, _, _, _, _, _)
LoopShifted(idx, d, meth, fv, n, st) ==
    IF n > Len(idx) \/ st.raised.kind # "None" THEN st
    ELSE IF idx[n] = <<>> THEN LoopShifted(idx, d, meth, fv, n + 1, st)
    ELSE LET got == Take(d, idx[n])
         IN  IF got.kind = "IndexError"
             THEN [st EXCEPT !.raised = got]
             ELSE LoopShifted(idx, d, meth, fv, n + 1,
                      [st EXCEPT !.coarseData[IF n < Len(idx) THEN n + 1 ELSE n] =
                                      Unmask(method(meth, got.val), fv),
                                 !.applied = Append(@, [cell |-> n - 1, arg |-> got.val])])

\* the loop over enumerate(self.indices), from cell n (counted from 1) on:
\* st holds coarseData, the reductions applied so far and the exception raised
RECURSIVE Loop(_, _, _, _, _, _)
Loop(idx, d, meth, fv, n, st) ==
    IF n > Len(idx) \/ st.raised.kind # "None" THEN st
    ELSE IF idx[n] = <<>> THEN Loop(idx, d, meth, fv, n + 1, st)
    ELSE LET got == Take(d, idx[n])
         IN  IF got.kind = "IndexError"
             THEN [st EXCEPT !.raised = got]
             ELSE Loop(idx, d, meth, fv, n + 1,
                      [st EXCEPT !.coarseData[n] = Unmask(method(meth, got.val), fv),
                                 !.applied = Append(@, [cell |-> n - 1, arg |-> got.val])])

\* fv*zeros(self.size)
FilledZeros(fv, n) == [k \in 1..n |-> fv * 0]

\* fv*ones(self.size)
Filled(fv, n) == [k \in 1..n |-> fv * 1]

\* self(data, method, fv): the final state of the loop
Run(idx, sz, d, meth, fv) ==
    Loop(idx, d, meth, fv, 1, [coarseData |-> Filled(fv, sz), applied |-> <<>>, raised |-> None])

\* what the call returns or raises
Outcome(st) == IF st.raised.kind # "None" THEN st.raised ELSE Returned(st.coarseData)

\* the fill values a caller passes
FillValues == {-999}

\* the entries of the fine arrays: three valid payloads and a masked one
FineValues == {Plain(10), Plain(20), Plain(30), Missing(70)}

\* the call empties the index lists it walks through
CallConsuming ==
    /\ call.op # "input"
    /\ \E meth \in Methods, fv \in FillValues :
          /\ call' = [op |-> "__call__", method |-> meth, fv |-> fv]
          /\ ret' = Outcome(Run(indices, size, data, meth, fv))
          /\ trace' = Run(indices, size, data, meth, fv).applied
    /\ indices' = [k \in DOMAIN indices |-> <<>>]
    /\ UNCHANGED <<size, paths, points, file, data, history>>

\* agg(data, method, fv) on the caller's fine array
Call ==
    /\ call.op # "input"
    /\ \E meth \in Methods, fv \in FillValues :
          /\ call' = [op |-> "__call__", method |-> meth, fv |-> fv]
          /\ ret' = Outcome(Run(indices, size, data, meth, fv))
          /\ trace' = Run(indices, size, data, meth, fv).applied
    /\ UNCHANGED <<indices, size, paths, points, file, data, history>>

\* --------------------------------------- aggregation: a mapping and an array

\* the index lists of the mappings aggregated: empty, in range, negative,
\* and beyond every fine array of the model
IndexLists == {<<>>, <<0>>, <<1>>, <<0, 2>>, <<-1>>, <<1, MaxFine + 4>>}

InitCall ==
    /\ \E M \in SeqsUpTo(IndexLists, MaxCoarse) :
          /\ indices = AggregatorMapping(M).indices
          /\ size = AggregatorMapping(M).size
    /\ paths = <<>>
    /\ points = <<>>
    /\ file = NoFile
    /\ data \in SeqsUpTo(FineValues, MaxFine)
    /\ call = [op |-> "AggregatorMapping"]
    /\ ret = None
    /\ trace = NoTrace
    /\ history = {}

NextCall == Call

SpecCall == InitCall /\ [][NextCall]_vars

\* the entries gathered for cell k (from 1), all its indices being in range
Gathered(k) == [j \in DOMAIN indices[k] |-> data[indices[k][j] + 1]]

AllInRange == \A k \in DOMAIN indices : \A j \in DOMAIN indices[k] :
                  0 <= indices[k][j] /\ indices[k][j] < Len(data)

\* the cells (from 0) the reduction function was applied for
AppliedCells == {trace[j].cell : j \in DOMAIN trace}

\* C3: aggregate returns the fill value at every position whose index list
\* is empty, and never applies the reduction function for such a cell.
FillValuePolicy ==
    call.op = "__call__" =>
        \A k \in DOMAIN indices :
            indices[k] = <<>> =>
                /\ (k - 1) \notin AppliedCells
                /\ ret.kind = "value" => ret.val[k] = call.fv

FillValueWitness ==
    /\ call.op = "__call__"
    /\ ret.kind = "value"
    /\ size = 2
    /\ indices[1] = <<>>
    /\ indices[2] # <<>>
    /\ ret.val[1] = call.fv
    /\ ret.val[2] # call.fv

\* C4: when every entry gathered for a cell is marked missing, so that the
\* reduction returns a missing value (as the default median does), aggregate
\* returns the fill value there, not a value taken from the masked entries.
AllMissingPolicy ==
    (call.op = "__call__" /\ ret.kind = "value") =>
        \A k \in DOMAIN indices :
            LET got == Take(data, indices[k])
            IN  (indices[k] # <<>> /\ \A j \in DOMAIN got.val : got.val[j].m) =>
                    /\ method(call.method, got.val).m => ret.val[k] = call.fv
                    /\ call.method = "median" => ret.val[k] = call.fv

AllMissingWitness ==
    /\ call.op = "__call__"
    /\ call.method = "median"
    /\ ret.kind = "value"
    /\ size = 2
    /\ indices = <<<<0, 2>>, <<1>>>>
    /\ data[1].m /\ data[3].m /\ ~data[2].m
    /\ ret.val = <<call.fv, data[2].v>>

\* C5: with every index in range, aggregate returns one entry per cell, and
\* the entry of a cell with a non-empty list and a non-missing reduction is
\* the reduction of exactly the fine values at that cell's indices; mapping
\* [[0,2],[1]] on [10,20,30] with the median gives [20,20].
AggregationResult ==
    (call.op = "__call__" /\ AllInRange) =>
        /\ ret.kind = "value"
        /\ Len(ret.val) = size
        /\ \A k \in DOMAIN indices :
              (indices[k] # <<>> /\ ~method(call.method, Gathered(k)).m) =>
                  ret.val[k] = method(call.method, Gathered(k)).v
        /\ (indices = <<<<0, 2>>, <<1>>>> /\ call.method = "median"
              /\ data = <<Plain(10), Plain(20), Plain(30)>>) => ret.val = <<20, 20>>

AggregationResultWitness ==
    /\ call.op = "__call__"
    /\ call.method = "median"
    /\ indices = <<<<0, 2>>, <<1>>>>
    /\ data = <<Plain(10), Plain(20), Plain(30)>>
    /\ ret = Returned(<<20, 20>>)

SomeOutOfBounds == \E k \in DOMAIN indices : \E j \in DOMAIN indices[k] :
                       OutOfBounds(indices[k][j], Len(data))

\* C7: aggregate on a mapping with an index out of bounds for the fine array
\* fails with an index error naming an out-of-bounds index of the mapping and
\* the array's length, and returns no coarse array.
OutOfRangeFails ==
    (call.op = "__call__" /\ SomeOutOfBounds) =>
        /\ ret.kind = "IndexError"
        /\ ret.size = Len(data)
        /\ OutOfBounds(ret.index, Len(data))
        /\ \E k \in DOMAIN indices : ret.index \in Range(indices[k])

OutOfRangeWitness ==
    /\ call.op = "__call__"
    /\ indices = <<<<0>>, <<1, MaxFine + 4>>>>
    /\ Len(data) = 3
    /\ Len(trace) = 1
    /\ ret = IndexError(MaxFine + 4, 3)

\* ------------------------------------------- a mapping in use: any call order

\* the caller binds the mapping load_csv_gz returned
Adopt ==
    /\ call.op = "load_csv_gz"
    /\ ret.kind = "value"
    /\ indices' = ret.val.indices
    /\ size' = ret.val.size
    /\ paths' = <<>>
    /\ points' = <<>>
    /\ call' = [op |-> "AggregatorMapping"]
    /\ ret' = None
    /\ trace' = NoTrace
    /\ history' = {}
    /\ UNCHANGED <<file, data>>

\* the caller keeps the coarse array (or the failure) of the call just made
Keep ==
    /\ call.op = "__call__"
    /\ history = {}
    /\ history' = {[call |-> call, data |-> data, ret |-> ret]}
    /\ call' = [op |-> "keep"]
    /\ ret' = None
    /\ trace' = NoTrace
    /\ UNCHANGED <<indices, size, paths, points, file, data>>

UseMappings == {<<<<0, 2>>, <<1>>>>, <<<<>>, <<1, MaxFine + 4>>>>}

UseArrays == {<<Plain(10), Plain(20), Plain(30)>>, <<Missing(70), Plain(20), Missing(70)>>}

\* the caller turns to another fine array
NewData ==
    /\ call.op # "input"
    /\ data' \in UseArrays \ {data}
    /\ call' = [op |-> "data"]
    /\ ret' = None
    /\ trace' = NoTrace
    /\ UNCHANGED <<indices, size, paths, points, file, history>>

Init ==
    /\ \/ /\ \E M \in UseMappings :
                /\ indices = AggregatorMapping(M).indices
                /\ size = AggregatorMapping(M).size
          /\ paths = <<>>
          /\ points = <<>>
          /\ call = [op |-> "AggregatorMapping"]
       \/ /\ indices = <<>>
          /\ size = 0
          /\ paths = <<Square0, Square1>>
          /\ points \in {<<Pt(5, 5), Pt(15, 5), Pt(9, 9)>>, <<Pt(5, 5), Pt(10, 5)>>}
          /\ call = [op |-> "input"]
    /\ file = NoFile
    /\ data \in UseArrays
    /\ ret = None
    /\ trace = NoTrace
    /\ history = {}

Next == Build \/ Save \/ Load \/ Adopt \/ Call \/ Keep \/ NewData

Spec == Init /\ [][Next]_vars

\* C10: no aggregate or save call changes the mapping's index lists or size,
\* or the fine array passed; and an aggregate call returns what an earlier
\* call with the same fine array, reduction and fill value returned, whatever
\* aggregate and save calls were made in between.
Immutable ==
    /\ [][(call'.op \in {"__call__", "save_csv_gz"}) =>
             (indices' = indices /\ size' = size /\ data' = data)]_vars
    /\ [](call.op = "__call__" =>
             \A h \in history : (h.call = call /\ h.data = data) => h.ret = ret)

ImmutableWitness ==
    /\ call.op = "__call__"
    /\ ret.kind = "value"
    /\ file.kind = "file"
    /\ \E h \in history : h.call = call /\ h.data = data /\ h.ret = ret
    /\ trace # <<>>

====
